---------------------------- MODULE Spec2Model ----------------------------
(***************************************************************************)
(* Model of the event-ticketing backend in src/index.js.                   *)
(*                                                                         *)
(* src/index.js holds two concatenated revisions of the server: lines      *)
(* 1-244 (variant 1, routes under /api with the bearer guard inlined in    *)
(* my-passes) and lines 246-504 (variant 2, /register and /login, the      *)
(* guard as the `auth` middleware).  A deployment runs one of them; the    *)
(* variable `variant` fixes which for a whole behaviour.                   *)
(*                                                                         *)
(* A JavaScript object is a record whose DOMAIN is the set of properties   *)
(* that are present: an absent property is `undefined` in the code.        *)
(* Strings that the code concatenates are sequences of one-character       *)
(* strings, so that a + "|" + b is really a concatenation.                 *)
(***************************************************************************)
EXTENDS Integers, Sequences, FiniteSets, TLC

VARIABLES
    variant,    \* 1 or 2: which revision of the server is deployed
    users,      \* the User collection, in insertion order
    bookings,   \* the Booking collection, in insertion order
    regPending, \* register handlers suspended at `await user.save()`
    payPending, \* verify-payment handlers suspended at `await newBooking.save()`
    nextId,     \* number of ObjectIds generated so far (each one is fresh)
    resp,       \* the response sent by the step just taken (NoResponse if none)
    loginFailed \* history: the failed logins seen so far, [why, status, body]

vars == <<variant, users, bookings, regPending, payPending, nextId, resp, loginFailed>>

---------------------------------------------------------------------------
(* Bounds of the model *)

\* handlers that may reach `new Booking(...)` / `new User(...)` in one run
MaxReq == 2

\* src/index.js:104 and :430, Math.random() * 10000
RandRange == 10000

---------------------------------------------------------------------------
(* Environment: secrets (process.env) *)

RAZORPAY_KEY_SECRET == "rzp_secret"
JWT_SECRET == "jwt_secret"
\* a key that is not the server's, used by forged signatures and tokens
ForeignKey == "attacker_key"

---------------------------------------------------------------------------
(* JavaScript objects *)

Has(o, k) == k \in DOMAIN o

\* { ...a, ...b }: the properties of a, overridden by those of b
Spread(a, b) ==
    [k \in DOMAIN a \cup DOMAIN b |-> IF k \in DOMAIN b THEN b[k] ELSE a[k]]

\* the properties of o among ks (mongoose strict mode keeps schema paths only)
Pick(o, ks) == [k \in DOMAIN o \cap ks |-> o[k]]

Empty == [k \in {} |-> 0]

\* an object with the single property k
Prop(k, v) == [x \in {k} |-> v]

NoResponse == [op |-> "none"]

\* res.status(status).json(body), sent by the handler of route `op`
Reply(op, status, body) == [op |-> op, status |-> status, body |-> body]

Message(m) == [message |-> m]

\* Number.prototype.toString for a non-negative integer
RECURSIVE DecimalDigits(_)
DecimalDigits(n) ==
    LET d == <<"0", "1", "2", "3", "4", "5", "6", "7", "8", "9">>[(n % 10) + 1]
    IN  IF n < 10 THEN <<d>> ELSE DecimalDigits(n \div 10) \o <<d>>

\* a fresh ObjectId: the n-th one generated by this process
ObjectId(n) == <<"oid", n>>

---------------------------------------------------------------------------
(* crypto.createHmac("sha256", key).update(msg).digest("hex") *)

Hmac(key, msg) == [alg |-> "sha256", key |-> key, msg |-> msg]

\* razorpay_order_id + "|" + razorpay_payment_id
SignedPayload(orderId, paymentId) == orderId \o <<"|">> \o paymentId

GeneratedSignature(req) ==
    Hmac(RAZORPAY_KEY_SECRET,
         SignedPayload(req.razorpay_order_id, req.razorpay_payment_id))


---------------------------------------------------------------------------
(* Mongoose schemas (variant 1: lines 30-61, variant 2: lines 284-318) *)

TicketTypes == {"STAG", "COUPLE"}
BookingStatuses == {"PENDING", "CONFIRMED", "USED"}

BookingPaths ==
    {"_id", "tickets", "totalAmount", "name", "email", "phone", "userId",
     "paymentId", "bookingId", "status", "createdAt"}

BookingRequired ==
    {"totalAmount", "name", "email", "phone", "userId", "paymentId",
     "bookingId", "status"}

\* Date.now() when the n-th document of the process is constructed: the clock
\* is read once per construction and advances between constructions.
DateNow(n) == <<"t", n>>

\* new Booking(fields): schema paths only, then the schema defaults
\* (_id generated, tickets [], status "CONFIRMED", createdAt Date.now)
NewBooking(fields, n) ==
    Spread([_id |-> ObjectId(n), tickets |-> <<>>, status |-> "CONFIRMED",
            createdAt |-> DateNow(n)],
           Pick(fields, BookingPaths))

TicketValid(t) ==
    /\ {"type", "quantity", "price"} \subseteq DOMAIN t
    /\ t.type \in TicketTypes

\* document validation run by save()
BookingValid(doc) ==
    /\ BookingRequired \subseteq DOMAIN doc
    /\ doc.status \in BookingStatuses
    /\ \A i \in 1..Len(doc.tickets) : TicketValid(doc.tickets[i])

\* insertOne: the collection's unique _id index rejects a duplicate
CanInsert(coll, doc) == \A i \in 1..Len(coll) : coll[i]._id # doc._id

\* a save keyed on bookingId: it replaces the stored document that has it
ReplaceByBookingId(coll, doc) ==
    IF Has(doc, "bookingId") /\ \E i \in 1..Len(coll) : coll[i].bookingId = doc.bookingId
    THEN [i \in 1..Len(coll) |->
             IF coll[i].bookingId = doc.bookingId THEN doc ELSE coll[i]]
    ELSE Append(coll, doc)

\* insertOne: the document is added, after the documents already stored
InsertOne(coll, doc) == Append(coll, doc)

---------------------------------------------------------------------------
(* Inputs of POST /api/verify-payment *)

\* the ObjectIds of two users, as a client sends them
UserIds == {ObjectId(0), ObjectId(1)}

Stag == [type |-> "STAG", quantity |-> 2, price |-> 500]
Couple == [type |-> "COUPLE", quantity |-> 1, price |-> 900]

Purchaser(u) == [name |-> "N", email |-> <<"mail", u[2]>>, phone |-> "P", userId |-> u]

\* the purchase of spec section 8: two ticket lines, total 1900
FormScenario ==
    Spread(Purchaser(ObjectId(0)), [tickets |-> <<Stag, Couple>>, totalAmount |-> 1900])

\* what a hostile client may send: no ticket lines, a made-up total and a
\* status of its own
FormHostile ==
    Spread(Purchaser(ObjectId(1)), [totalAmount |-> 1, status |-> "PENDING"])

\* a form without userId
FormNoUserId ==
    Pick(Spread(Purchaser(ObjectId(0)), [tickets |-> <<Stag>>, totalAmount |-> 1000]),
         BookingPaths \ {"userId"})

\* the signature the gateway issues for a payment of an order
GatewaySignature(o, p) == Hmac(RAZORPAY_KEY_SECRET, SignedPayload(o, p))

\* a signature made with a key that is not the gateway's
ForgedSignature(o, p) == Hmac(ForeignKey, SignedPayload(o, p))

VerifyBody(p, sig) ==
    [razorpay_payment_id |-> p, razorpay_order_id |-> <<"o">>, razorpay_signature |-> sig]

WithForm(body, form) == Spread(body, [formData |-> form])

\* req.body: payments "p" and "q" of order "o", rightly signed, with each
\* form and without one; and payment "p" under a forged signature and under
\* the signature of payment "q"
VerifyRequests ==
    { WithForm(VerifyBody(<<"p">>, GatewaySignature(<<"o">>, <<"p">>)), FormScenario),
      WithForm(VerifyBody(<<"q">>, GatewaySignature(<<"o">>, <<"q">>)), FormScenario),
      WithForm(VerifyBody(<<"q">>, GatewaySignature(<<"o">>, <<"q">>)), FormHostile),
      WithForm(VerifyBody(<<"p">>, GatewaySignature(<<"o">>, <<"p">>)), FormNoUserId),
      VerifyBody(<<"p">>, GatewaySignature(<<"o">>, <<"p">>)),
      WithForm(VerifyBody(<<"p">>, GatewaySignature(<<"o">>, <<"q">>)), FormScenario),
      WithForm(VerifyBody(<<"p">>, ForgedSignature(<<"o">>, <<"p">>)), FormScenario),
      WithForm(VerifyBody(<<"p">>, ForgedSignature(<<"o">>, <<"p">>)), FormNoUserId),
      VerifyBody(<<"p">>, ForgedSignature(<<"o">>, <<"p">>)) }

\* Math.floor(Math.random() * 10000): two of the draws in 0 .. 9999
RandomInts == { n \in {7, 4210} : n < RandRange }

---------------------------------------------------------------------------
(* POST /api/verify-payment *)

\* !formData || !formData.userId   (variant 1 only, lines 91-93)
MissingUserId(req) == ~Has(req, "formData") \/ ~Has(req.formData, "userId")

\* a comparison that looks at the signed text only, not at the key that signed it
SignatureMatchesAnyKey(req) ==
    req.razorpay_signature.msg = GeneratedSignature(req).msg

\* generated_signature !== razorpay_signature, negated
SignatureMatches(req) == GeneratedSignature(req) = req.razorpay_signature

\* "BN" + Math.floor(Math.random() * 10000)
BookingIdOf(n) == <<"B", "N">> \o DecimalDigits(n)

\* the object handed to new Booking(...)
BookingFields(req, n) ==
    IF variant = 1
    THEN Spread(req.formData,
                [paymentId |-> req.razorpay_payment_id, bookingId |-> BookingIdOf(n)])
    ELSE Spread(Pick(req.formData,
                     {"tickets", "totalAmount", "name", "email", "phone", "userId"}),
                [paymentId |-> req.razorpay_payment_id, bookingId |-> BookingIdOf(n)])

\* the handler up to its first await: it answers, or suspends in save()
VerifyPayment(req) ==
    /\ IF variant = 1 /\ MissingUserId(req)
       THEN /\ resp' = Reply("verify-payment", 400, Message("User ID is required"))
            /\ UNCHANGED <<payPending, nextId>>
       ELSE IF ~SignatureMatches(req)
       THEN /\ resp' = Reply("verify-payment", 400, Message("Invalid payment signature"))
            /\ UNCHANGED <<payPending, nextId>>
       ELSE IF ~Has(req, "formData")
       THEN \* variant 2: formData.tickets throws a TypeError, caught at line 446
            /\ resp' = Reply("verify-payment", 500, Message("Error verifying payment"))
            /\ UNCHANGED <<payPending, nextId>>
       ELSE /\ nextId < MaxReq
            /\ nextId' = nextId + 1
            /\ resp' = NoResponse
            /\ \E n \in RandomInts :
                 payPending' = payPending \cup
                     { [req |-> req, doc |-> NewBooking(BookingFields(req, n), nextId)] }
    /\ UNCHANGED <<variant, users, bookings, regPending, loginFailed>>

\* await newBooking.save() completes, then the handler answers
SaveBooking(p) ==
    /\ payPending' = payPending \ {p}
    /\ IF BookingValid(p.doc) /\ CanInsert(bookings, p.doc)
       THEN /\ bookings' = InsertOne(bookings, p.doc)
            /\ resp' = Reply("verify-payment", 200, [success |-> TRUE, booking |-> p.doc])
       ELSE /\ UNCHANGED bookings
            /\ resp' = Reply("verify-payment", 500, Message("Error verifying payment"))
    /\ UNCHANGED <<variant, users, regPending, nextId, loginFailed>>

---------------------------------------------------------------------------
(* The bearer guard: inline in variant 1 (lines 164-180), `auth` in variant 2 *)

\* An Authorization header is a sequence of atoms, and stands for the string
\* that concatenates them: a word without spaces, one space, or a token.
Word(w) == [kind |-> "word", text |-> w]
Space == [kind |-> "space"]
Bearer == Word("Bearer")

\* jwt.sign(payload, key, {expiresIn}); `expired` says whether the expiry has
\* passed when the token is presented
Jwt(payload, key, expired) ==
    [kind |-> "jwt", payload |-> payload, key |-> key, expired |-> expired]

\* index of the first space of h, or Len(h) + 1
RECURSIVE FirstSpace(_, _)
FirstSpace(h, i) ==
    IF i > Len(h) \/ h[i] = Space THEN i ELSE FirstSpace(h, i + 1)

\* authHeader.startsWith("Bearer ")
StartsWithBearer(h) == Len(h) >= 2 /\ h[1] = Bearer /\ h[2] = Space

\* authHeader.split(" ")[1], for a header that holds a space
SplitSecond(h) ==
    LET rest == SubSeq(h, FirstSpace(h, 1) + 1, Len(h))
    IN  SubSeq(rest, 1, FirstSpace(rest, 1) - 1)

\* a verification that checks the signature and forgets the expiry
JwtVerifiesIgnoringExpiry(token) ==
    /\ Len(token) = 1
    /\ token[1].kind = "jwt"
    /\ token[1].key = JWT_SECRET

\* jwt.verify(token, JWT_SECRET) returns (does not throw)
JwtVerifies(token) ==
    /\ Len(token) = 1
    /\ token[1].kind = "jwt"
    /\ token[1].key = JWT_SECRET
    /\ ~token[1].expired

\* the payload property each revision reads: decoded.userId / decoded.id
TokenField == IF variant = 1 THEN "userId" ELSE "id"

\* the headers a client may send (req has no Authorization property otherwise)
Payloads == { Prop(f, u) : f \in {"userId", "id"}, u \in UserIds }

\* tokens signed with the server's secret and not expired, for user 1
GoodTokens == { Jwt(Prop(f, ObjectId(0)), JWT_SECRET, FALSE) : f \in {"userId", "id"} }
AToken == Jwt([userId |-> ObjectId(0)], JWT_SECRET, FALSE)

Tokens ==
    { Jwt(pl, JWT_SECRET, FALSE) : pl \in Payloads }
    \cup { Jwt([userId |-> ObjectId(0)], ForeignKey, FALSE),
           Jwt([userId |-> ObjectId(0)], JWT_SECRET, TRUE),
           Word("garbage") }

AuthHeaders ==
    { <<Bearer, Space, t>> : t \in Tokens }
    \cup { <<Bearer, Space, t, Space, Word("x")>> : t \in GoodTokens }
    \cup { <<Word("Basic"), Space, AToken>>, <<Bearer, AToken>>,
           <<Bearer, Space, Space, AToken>>, <<Bearer, Space>> }

PassesRequests == { Empty } \cup { [Authorization |-> h] : h \in AuthHeaders }

---------------------------------------------------------------------------
(* GET /api/bookings/my-passes *)

\* Booking.find(filter): the stored documents equal to filter on its properties,
\* in natural (insertion) order
Find(coll, filter) ==
    SelectSeq(coll, LAMBDA d : \A k \in DOMAIN filter : Has(d, k) /\ d[k] = filter[k])

\* booking._id.toString()
ObjectIdToString(id) == <<"hex", id[2]>>

PassOf(booking, ticket) ==
    [_id |-> ObjectIdToString(booking._id),
     bookingId |-> booking.bookingId,
     ticketType |-> ticket.type,
     quantity |-> ticket.quantity,
     totalAmount |-> ticket.price * ticket.quantity,
     name |-> booking.name,
     email |-> booking.email,
     phone |-> booking.phone,
     status |-> booking.status,
     createdAt |-> booking.createdAt]

\* booking.tickets.map((ticket) => ({...}))
TicketPasses(booking) ==
    [j \in 1..Len(booking.tickets) |-> PassOf(booking, booking.tickets[j])]

\* Array.prototype.flat(), one level
RECURSIVE Flat(_)
Flat(arrays) ==
    IF Len(arrays) = 0 THEN <<>> ELSE Head(arrays) \o Flat(Tail(arrays))

\* bookings.map(...).flat() (variant 1), bookings.flatMap(...) (variant 2)
ToPasses(found) == Flat([i \in 1..Len(found) |-> TicketPasses(found[i])])

\* a query that forgets its filter
FindEveryBooking(decoded) == bookings

\* Booking.find({ userId }) with the id the guard decoded; a token without the
\* property gives { userId: undefined }, which no stored booking matches
FindByUser(decoded) ==
    IF Has(decoded, TokenField)
    THEN Find(bookings, [userId |-> decoded[TokenField]])
    ELSE <<>>

\* `queried` records whether the handler reached Booking.find
PassesReply(status, body, queried) ==
    [op |-> "my-passes", status |-> status, body |-> body, queried |-> queried]

MyPasses(req) ==
    /\ IF ~Has(req, "Authorization") \/ ~StartsWithBearer(req.Authorization)
       THEN resp' = PassesReply(401, Message("No token, authorization denied"), FALSE)
       ELSE IF ~JwtVerifies(SplitSecond(req.Authorization))
       THEN resp' = PassesReply(401,
                        Message(IF variant = 1 THEN "Token is not valid" ELSE "Invalid token"),
                        FALSE)
       ELSE LET decoded == SplitSecond(req.Authorization)[1].payload
            IN  resp' = PassesReply(200, ToPasses(FindByUser(decoded)), TRUE)
    /\ UNCHANGED <<variant, users, bookings, regPending, payPending, nextId, loginFailed>>

---------------------------------------------------------------------------
(* GET /api/bookings/user/:email, GET /api/bookings, POST /api/create-order *)

Emails == { <<"mail", 0>>, <<"mail", 1>> }

ListByEmail(email) ==
    /\ resp' = Reply("bookings-by-email", 200, Find(bookings, [email |-> email]))
    /\ UNCHANGED <<variant, users, bookings, regPending, payPending, nextId, loginFailed>>

ListAll ==
    /\ resp' = Reply("bookings", 200, bookings)
    /\ UNCHANGED <<variant, users, bookings, regPending, payPending, nextId, loginFailed>>

Amounts == {19}

\* razorpay.orders.create(options): the gateway answers with an order, or fails
CreateOrder(amount) ==
    /\ \/ resp' = Reply("create-order", 200,
                        [id |-> "order", amount |-> amount * 100, currency |-> "INR"])
       \/ resp' = Reply("create-order", 500, Message("Error creating order"))
    /\ UNCHANGED <<variant, users, bookings, regPending, payPending, nextId, loginFailed>>

---------------------------------------------------------------------------
(* Users: schema, bcrypt, register and login *)

UserPaths == {"_id", "name", "email", "phone", "password"}

\* variant 1 requires every path (lines 31-34); variant 2 requires none (285-288)
UserRequired == IF variant = 1 THEN {"name", "email", "phone", "password"} ELSE {}

UserValid(doc) == UserRequired \subseteq DOMAIN doc

\* the unique index on email (lines 32, 286) and on _id
CanInsertUser(coll, doc) ==
    \A i \in 1..Len(coll) :
        /\ coll[i]._id # doc._id
        /\ ~(Has(doc, "email") /\ Has(coll[i], "email") /\ coll[i].email = doc.email)

\* bcrypt.hash(password, 10): a salted one-way hash
BcryptHash(password, salt) ==
    [alg |-> "bcrypt", rounds |-> 10, salt |-> salt, of |-> password]

\* bcrypt.compare(password, hash)
BcryptCompare(password, hash) == BcryptHash(password, hash.salt) = hash

Salts == {"salt"}
Passwords == {"pw1", "pw2"}

\* req.body of register: email always given; name and password may be missing
RegisterRequests ==
    { Spread(Spread([email |-> e, phone |-> "P"], n), pw) :
        e \in Emails,
        n \in {Empty, [name |-> "N"]},
        pw \in {Empty} \cup { [password |-> x] : x \in Passwords } }

LoginRequests ==
    { Spread([email |-> e], pw) :
        e \in Emails, pw \in {Empty} \cup { [password |-> x] : x \in Passwords } }

\* User.findOne({ email })
FindUser(email) == Find(users, [email |-> email])

\* new User({ name, email, phone, password: hashedPassword })
NewUser(req, hashed, n) ==
    Spread([_id |-> ObjectId(n)],
           Spread(Pick(req, {"name", "email", "phone"}), [password |-> hashed]))

\* jwt.sign({ userId: user._id }, ...) in variant 1, { id: user._id } in variant 2
IssueToken(user) == Jwt(Prop(TokenField, user._id), JWT_SECRET, FALSE)

EmailInUseReply ==
    Reply("register", 400,
          Message(IF variant = 1 THEN "Email already in use" ELSE "User already exists"))

ServerErrorReply(op) == Reply(op, 500, Message("Server error"))

\* the body of a successful register: lines 155 and 361
RegisterBody(req, user) ==
    IF variant = 1
    THEN [token |-> IssueToken(user),
          user |-> Spread([userId |-> user._id], Pick(req, {"name", "email", "phone"}))]
    ELSE [token |-> IssueToken(user), user |-> user]

\* the handler up to `await user.save()`: lookup, hash, construct
Register(req) ==
    /\ IF Len(FindUser(req.email)) > 0
       THEN /\ resp' = EmailInUseReply
            /\ UNCHANGED <<regPending, nextId>>
       ELSE IF ~Has(req, "password")
       THEN \* bcrypt.hash(undefined, 10) throws
            /\ resp' = ServerErrorReply("register")
            /\ UNCHANGED <<regPending, nextId>>
       ELSE /\ nextId < MaxReq
            /\ nextId' = nextId + 1
            /\ resp' = NoResponse
            /\ \E salt \in Salts :
                 regPending' = regPending \cup
                     { [req |-> req,
                        doc |-> NewUser(req, BcryptHash(req.password, salt), nextId)] }
    /\ UNCHANGED <<variant, users, bookings, payPending, loginFailed>>

\* user.save() completes, then the handler signs a token and answers
SaveUser(p) ==
    /\ regPending' = regPending \ {p}
    /\ IF UserValid(p.doc) /\ CanInsertUser(users, p.doc)
       THEN /\ users' = InsertOne(users, p.doc)
            /\ resp' = Reply("register", IF variant = 1 THEN 200 ELSE 201,
                             RegisterBody(p.req, p.doc))
       ELSE /\ UNCHANGED users
            /\ resp' = ServerErrorReply("register")
    /\ UNCHANGED <<variant, bookings, payPending, nextId, loginFailed>>

\* an answer that tells the caller the account does not exist
UserNotFoundReply == Reply("login", 404, Message("User not found"))

\* the answer to a login with an unknown email (lines 223-224, 374)
NoSuchUserReply ==
    Reply("login", 400,
          Message(IF variant = 1 THEN "Invalid email or password" ELSE "Invalid credentials"))

\* the answer to a login whose password does not match (lines 227-228, 377-378)
WrongPasswordReply ==
    Reply("login", 400,
          Message(IF variant = 1 THEN "Invalid email or password" ELSE "Invalid credentials"))

\* the body of a successful login: lines 234-237 and 382
LoginBody(req, user) ==
    IF variant = 1
    THEN [token |-> IssueToken(user),
          user |-> Spread(Pick([id |-> user._id, email |-> req.email], {"id", "email"}),
                          Pick(user, {"name", "phone"}))]
    ELSE [token |-> IssueToken(user), user |-> user]

Failure(why, reply) == [why |-> why, status |-> reply.status, body |-> reply.body]

Login(req) ==
    /\ LET found == FindUser(req.email)
       IN  IF Len(found) = 0
           THEN /\ resp' = NoSuchUserReply
                /\ loginFailed' = loginFailed \cup {Failure("unknown-email", NoSuchUserReply)}
           ELSE IF ~Has(req, "password")
           THEN \* bcrypt.compare(undefined, hash) throws
                /\ resp' = ServerErrorReply("login")
                /\ UNCHANGED loginFailed
           ELSE IF ~BcryptCompare(req.password, found[1].password)
           THEN /\ resp' = WrongPasswordReply
                /\ loginFailed' = loginFailed \cup {Failure("wrong-password", WrongPasswordReply)}
           ELSE /\ resp' = Reply("login", 200, LoginBody(req, found[1]))
                /\ UNCHANGED loginFailed
    /\ UNCHANGED <<variant, users, bookings, regPending, payPending, nextId>>

---------------------------------------------------------------------------

Init ==
    /\ variant \in {1, 2}
    /\ users = <<>>
    /\ bookings = <<>>
    /\ regPending = {}
    /\ payPending = {}
    /\ nextId = 0
    /\ resp = NoResponse
    /\ loginFailed = {}

NextBooking ==
    \/ \E req \in VerifyRequests : VerifyPayment(req)
    \/ \E p \in payPending : SaveBooking(p)
    \/ \E req \in PassesRequests : MyPasses(req)

\* the open listings and the order service: they read the bookings, or nothing
NextListing ==
    \/ \E email \in Emails : ListByEmail(email)
    \/ ListAll
    \/ \E amount \in Amounts : CreateOrder(amount)

NextIdentity ==
    \/ \E req \in RegisterRequests : Register(req)
    \/ \E p \in regPending : SaveUser(p)
    \/ \E req \in LoginRequests : Login(req)

Next == NextBooking \/ NextListing \/ NextIdentity

Spec == Init /\ [][Next]_vars

\* the payment workflow and the queries, with no user registered
SpecBooking == Init /\ [][NextBooking]_vars

\* registration and login, with no booking made
SpecIdentity == Init /\ [][NextIdentity]_vars

---------------------------------------------------------------------------
(* Properties of POST /api/verify-payment *)

\* the supplied signature is the HMAC-SHA256, under the gateway secret, of
\* orderId + "|" + paymentId
ValidSignature(req) ==
    /\ req.razorpay_signature.alg = "sha256"
    /\ req.razorpay_signature.key = RAZORPAY_KEY_SECRET
    /\ req.razorpay_signature.msg =
         req.razorpay_order_id \o <<"|">> \o req.razorpay_payment_id

\* the form carries what the schema requires of it, and no status outside the enum
FormAcceptable(req) ==
    /\ Has(req, "formData")
    /\ {"totalAmount", "name", "email", "phone", "userId"} \subseteq DOMAIN req.formData
    /\ Has(req.formData, "tickets") =>
         \A i \in 1..Len(req.formData.tickets) :
             req.formData.tickets[i].type \in {"STAG", "COUPLE"}
    /\ (variant = 1 /\ Has(req.formData, "status")) =>
         req.formData.status \in {"PENDING", "CONFIRMED", "USED"}

\* the requests whose signature is, and is not, the gateway's for their ids
GoodSignatureRequests == { req \in VerifyRequests : ValidSignature(req) }
BadSignatureRequests == VerifyRequests \ GoodSignatureRequests

\* the step answered a verify-payment request with `status`
Answered(status) == resp'.op = "verify-payment" /\ resp'.status = status

C2_EveryBookingConfirmed ==
    \A i \in 1..Len(bookings) : bookings[i].status = "CONFIRMED"

RECURSIVE SumTotals(_)
SumTotals(passes) ==
    IF Len(passes) = 0 THEN 0 ELSE Head(passes).totalAmount + SumTotals(Tail(passes))

\* C6, as stated: for every persisted booking the totals of the passes derived
\* from it sum to the booking's stored totalAmount.
C6_PassTotalsSumToTotalAmount ==
    \A i \in 1..Len(bookings) :
        SumTotals(ToPasses(<<bookings[i]>>)) = bookings[i].totalAmount

C10_BookingIdsUnique ==
    \A i, j \in 1..Len(bookings) :
        i # j => bookings[i].bookingId # bookings[j].bookingId

---------------------------------------------------------------------------
(* Properties of GET /api/bookings/my-passes *)

\* the request carries "Bearer <token>" (whatever follows a further space is
\* cut off by split) and the token is signed by the server and not expired
CarriesValidBearer(req) ==
    /\ Has(req, "Authorization")
    /\ LET h == req.Authorization
       IN  /\ Len(h) >= 3
           /\ h[1] = Word("Bearer")
           /\ h[2] = [kind |-> "space"]
           /\ h[3].kind = "jwt"
           /\ h[3].key = JWT_SECRET
           /\ ~h[3].expired
           /\ Len(h) = 3 \/ h[4] = [kind |-> "space"]

AuthenticatedRequests == { req \in PassesRequests : CarriesValidBearer(req) }
UnauthenticatedRequests == PassesRequests \ AuthenticatedRequests

\* C4: a request without a valid bearer token is answered 401, with a body
\* that holds a message only, and the handler does not query the bookings.
C4_NoTokenNoData ==
    [][ resp'.op = "my-passes" =>
            \A req \in UnauthenticatedRequests :
                MyPasses(req) =>
                    /\ resp'.status = 401
                    /\ DOMAIN resp'.body = {"message"}
                    /\ ~resp'.queried ]_vars

\* a token that fails verification was refused while the store held bookings
C4_Witness ==
    /\ Len(bookings) > 0
    /\ resp.op = "my-passes"
    /\ resp.status = 401
    /\ resp.body \in {Message("Token is not valid"), Message("Invalid token")}

\* the stored bookings of user u, in insertion order
BookingsOf(u) == SelectSeq(bookings, LAMBDA b : b.userId = u)

\* the number of ticket lines of the first k bookings of bs
RECURSIVE TicketsBefore(_, _)
TicketsBefore(bs, k) ==
    IF k = 0 THEN 0 ELSE TicketsBefore(bs, k - 1) + Len(bs[k].tickets)

\* passes is the expansion of bs: one pass per ticket line, bookings in order
\* and ticket lines in order, with the booking's fields and price x quantity
IsExpansionOf(passes, bs) ==
    /\ Len(passes) = TicketsBefore(bs, Len(bs))
    /\ \A k \in 1..Len(bs) :
         \A j \in 1..Len(bs[k].tickets) :
            LET pass == passes[TicketsBefore(bs, k - 1) + j]
                t == bs[k].tickets[j]
            IN  /\ pass.bookingId = bs[k].bookingId
                /\ pass.name = bs[k].name
                /\ pass.email = bs[k].email
                /\ pass.phone = bs[k].phone
                /\ pass.status = bs[k].status
                /\ pass.createdAt = bs[k].createdAt
                /\ pass.totalAmount = t.price * t.quantity

\* C5: for a user u authenticated by the token, the answer is exactly the
\* expansion of the stored bookings whose userId is u.
C5_PassesAreTheUsersExpansion ==
    [][ resp'.op = "my-passes" =>
            \A req \in AuthenticatedRequests :
                (Has(req.Authorization[3].payload, TokenField) /\ MyPasses(req)) =>
                    /\ resp'.status = 200
                    /\ IsExpansionOf(resp'.body,
                                     BookingsOf(req.Authorization[3].payload[TokenField])) ]_vars

\* a user with a two-line booking got two passes while another user's booking
\* was in the store
C5_Witness ==
    /\ resp.op = "my-passes"
    /\ resp.status = 200
    /\ Len(resp.body) = 2
    /\ Len(bookings) = 2
    /\ bookings[1].userId # bookings[2].userId

---------------------------------------------------------------------------
(* Properties of register and login *)

\* the email of the request belongs to a stored user
EmailTaken(req) == \E i \in 1..Len(users) : users[i].email = req.email

\* C3, as stated: a register request whose email belongs to a stored user
\* fails with status 400 and leaves the user store unchanged, also when the
\* lookups and inserts of two requests interleave.
C3_DuplicateEmailIsConflict ==
    [][ /\ \A req \in RegisterRequests :
             (Register(req) /\ EmailTaken(req)) =>
                 /\ resp'.status = 400
                 /\ users' = users
        /\ \A p \in regPending :
             (SaveUser(p) /\ EmailTaken(p.req)) =>
                 /\ resp'.status = 400
                 /\ users' = users ]_vars

\* C7: a login that fails for an unknown email and one that fails for a wrong
\* password get the same status and the same message, and a failed login
\* changes no stored state.
C7_LoginFailuresAlike ==
    [][ /\ \A a, b \in loginFailed' : a.status = b.status /\ a.body = b.body
        /\ \A req \in LoginRequests :
             (Login(req) /\ resp'.status # 200) =>
                 /\ users' = users
                 /\ bookings' = bookings
                 /\ regPending' = regPending
                 /\ payPending' = payPending ]_vars

\* both kinds of failure have been seen
C7_Witness ==
    /\ \E a \in loginFailed : a.why = "unknown-email"
    /\ \E b \in loginFailed : b.why = "wrong-password"

\* C8, as stated: a stored password is the hash, never the submitted password,
\* and the body of a successful register or login has no password field.
C8_NoPasswordInResponse ==
    /\ \A i \in 1..Len(users) :
         /\ DOMAIN users[i].password = {"alg", "rounds", "salt", "of"}
         /\ users[i].password.alg = "bcrypt"
    /\ (resp.op \in {"register", "login"} /\ resp.status \in {200, 201}) =>
         ~Has(resp.body.user, "password")

=============================================================================
